---- MODULE Spec2Model ----
(***************************************************************************)
(* A model of samples/memfs/memfs.go: the inode table of the in-memory     *)
(* file system (inodes, freeInodes), its table lock fs.mu, the per-inode   *)
(* locks, and the handlers of the file system operations, each split at    *)
(* its lock operations.                                                    *)
(*                                                                         *)
(* IDs are 0 .. len(inodes)-1; inodes is a function over that range.  A    *)
(* vacant slot (a nil pointer in the code) holds NilInode.                 *)
(* A file inode carries its contents, a sequence of bytes; a request       *)
(* carries the data, offset and size of a read, write or resize, and a     *)
(* response the error, the entry with its expirations, and the bytes read. *)
(***************************************************************************)
EXTENDS Integers, Sequences, FiniteSets, TLC

\* ------------------------------------------------------------------ bounds

\* The table never grows beyond this many slots (IDs 0 .. MaxInodes-1).
MaxInodes == 4

\* The number of concurrently calling threads.
NumThreads == 2

\* The longest call sequence of the table harness (SpecTable).
MaxCalls == 6

\* The largest offset of a read or write request of SpecFile.
MaxOffset == 2

\* The longest free list of the table states of SpecOracle.
MaxFree == 3

\* fuseops.RootInodeID
RootInodeID == 1

Threads == 1 .. NumThreads

\* The IDs a request may carry: every slot the table can have, so that a
\* request may name a reserved ID, a resident inode, or an ID past the table.
IDs == 0 .. (MaxInodes - 1)

Names == {"a", "b"}

Targets == {"t"}

NoThread == 0

VARIABLES
  inodes,      \* fs.inodes: ID -> inode or NilInode
  freeInodes,  \* fs.freeInodes: a sequence of IDs
  mu,          \* fs.mu: the thread holding it, or NoThread
  pc,          \* per thread: its position in the handler it runs
  op,          \* per thread: the request it serves
  childID,     \* per thread: the handler's childID local
  resp,        \* per thread: the response (err and op.Entry.Child)
  panicked,    \* whether some handler panicked (the process is gone)
  hist         \* the calls made by the harness of SpecTable or SpecRace, in order

vars == <<inodes, freeInodes, mu, pc, op, childID, resp, panicked, hist>>

\* ------------------------------------------------------------------ inodes

NilInode ==
  [kind |-> "nil", nlink |-> 0, entries |-> <<>>, target |-> "", contents |-> <<>>,
   mu |-> NoThread]

\* fuseops.InodeAttributes, as far as the table depends on it: the type bits
\* of Mode (kind) and Nlink.
Attrs(kind, nlink) == [kind |-> kind, nlink |-> nlink]

\* newInode(clock, attrs)
newInode(attrs) ==
  [kind |-> attrs.kind, nlink |-> attrs.nlink, entries |-> <<>>, target |-> "",
   contents |-> <<>>, mu |-> NoThread]

isDir(in) == in.kind = "dir"

isFile(in) == in.kind = "file"

\* The index of the first entry of the given name, or 0.
RECURSIVE findChild(_, _, _)
findChild(entries, name, k) ==
  IF k > Len(entries) THEN 0
  ELSE IF entries[k].name = name THEN k
  ELSE findChild(entries, name, k + 1)

\* inode.LookUpChild(name): <<id, ok>>
LookUpChild(in, name) ==
  LET k == findChild(in.entries, name, 1)
  IN  IF k = 0 THEN <<0, FALSE>> ELSE <<in.entries[k].child, TRUE>>

\* inode.AddChild(id, name, dt)
AddChild(in, id, name, dt) ==
  [in EXCEPT !.entries = Append(@, [name |-> name, child |-> id, type |-> dt])]

\* inode.RemoveChild(name)
RemoveChild(in, name) ==
  LET k == findChild(in.entries, name, 1)
  IN  IF k = 0 THEN in
      ELSE [in EXCEPT !.entries =
              SubSeq(@, 1, k - 1) \o SubSeq(@, k + 1, Len(@))]

\* inode.Len()
DirLen(in) == Len(in.entries)

\* n zero bytes.
Zeros(n) == [i \in 1 .. n |-> 0]

\* inode.WriteAt(p, off) on the contents of a file: the buffer grows, padded
\* with zero bytes, to off+len(p) if it is shorter; then p is copied in at
\* off.  n is the number of bytes written.
WriteAt(contents, p, off) ==
  LET newLen == off + Len(p)
      padded == IF Len(contents) < newLen
                THEN contents \o Zeros(newLen - Len(contents))
                ELSE contents
  IN  [contents |-> SubSeq(padded, 1, off) \o p \o SubSeq(padded, newLen + 1, Len(padded)),
       n |-> Len(p),
       err |-> "nil"]

\* inode.ReadAt(p, off) with p = make([]byte, size): the overlap of
\* [off, off+size) and the contents is copied to the front of p, n is its
\* length, and end-of-data (io.EOF) is signalled when the range reaches
\* beyond the contents.
ReadAt(contents, size, off) ==
  LET last == IF off + size < Len(contents) THEN off + size ELSE Len(contents)
      data == SubSeq(contents, off + 1, last)
  IN  [p |-> data \o Zeros(size - Len(data)),
       n |-> Len(data),
       err |-> IF off + size > Len(contents) THEN "EOF" ELSE "nil"]

\* The resize of inode.SetAttributes(size, ...): truncate, or grow with zero
\* bytes, to exactly size.
Resize(contents, size) ==
  IF size <= Len(contents) THEN SubSeq(contents, 1, size)
  ELSE contents \o Zeros(size - Len(contents))

\* ------------------------------------------------------------------ table

LenInodes(tbl) == Cardinality(DOMAIN tbl)

\* Whether fs.inodes[id] evaluates without an index-out-of-range panic.
InRange(tbl, id) == id \in DOMAIN tbl

Occupied(tbl, id) == InRange(tbl, id) /\ tbl[id] # NilInode

\* append(fs.inodes, inode)
AppendInode(tbl, in) ==
  LET n == LenInodes(tbl)
  IN  [i \in 0 .. n |-> IF i < n THEN tbl[i] ELSE in]

\* The set freeIDsEncountered that checkInvariants builds.
freeIDsEncountered(tbl) ==
  {i \in DOMAIN tbl : i > RootInodeID /\ tbl[i] = NilInode}

\* checkInvariants returns without a panic.
checkInvariants(tbl, free) ==
  /\ \A i \in 0 .. (RootInodeID - 1) : tbl[i] = NilInode
  /\ isDir(tbl[RootInodeID])
  /\ Len(free) = Cardinality(freeIDsEncountered(tbl))
  /\ \A k \in 1 .. Len(free) : free[k] \in freeIDsEncountered(tbl)

\* allocateInode minting the ID len(fs.inodes)-1 and storing the inode there.
allocateInode_OffByOne(tbl, free, attrs, t) ==
  LET in == [newInode(attrs) EXCEPT !.mu = t]
      numFree == Len(free)
  IN  IF numFree # 0
      THEN LET id == free[numFree]
           IN  <<id, [tbl EXCEPT ![id] = in], SubSeq(free, 1, numFree - 1)>>
      ELSE <<LenInodes(tbl) - 1, [tbl EXCEPT ![LenInodes(tbl) - 1] = in], free>>

\* allocateInode taking the oldest free ID instead of the newest.
allocateInode_Fifo(tbl, free, attrs, t) ==
  LET in == [newInode(attrs) EXCEPT !.mu = t]
      numFree == Len(free)
  IN  IF numFree # 0
      THEN <<free[1], [tbl EXCEPT ![free[1]] = in], SubSeq(free, 2, numFree)>>
      ELSE <<LenInodes(tbl), AppendInode(tbl, in), free>>

\* allocateInode that leaves the ID it reuses on the free list.
allocateInode_KeepsFree(tbl, free, attrs, t) ==
  LET in == [newInode(attrs) EXCEPT !.mu = t]
      numFree == Len(free)
  IN  IF numFree # 0
      THEN LET id == free[numFree]
           IN  <<id, [tbl EXCEPT ![id] = in], free>>
      ELSE <<LenInodes(tbl), AppendInode(tbl, in), free>>

\* allocateInode returning the new inode without its lock held.
allocateInode_Unlocked(tbl, free, attrs, t) ==
  LET in == newInode(attrs)
      numFree == Len(free)
  IN  IF numFree # 0
      THEN LET id == free[numFree]
           IN  <<id, [tbl EXCEPT ![id] = in], SubSeq(free, 1, numFree - 1)>>
      ELSE <<LenInodes(tbl), AppendInode(tbl, in), free>>

\* allocateInode(attrs), called by thread t: <<id, inodes', freeInodes'>>.
\* The new inode is returned locked by t.
allocateInode(tbl, free, attrs, t) ==
  LET in == [newInode(attrs) EXCEPT !.mu = t]
      numFree == Len(free)
  IN  IF numFree # 0
      THEN LET id == free[numFree]
           IN  <<id, [tbl EXCEPT ![id] = in], SubSeq(free, 1, numFree - 1)>>
      ELSE <<LenInodes(tbl), AppendInode(tbl, in), free>>

\* deallocateInode that forgets to clear the slot.
deallocateInode_KeepSlot(tbl, free, id) == <<tbl, Append(free, id)>>

\* deallocateInode(id): <<inodes', freeInodes'>>
deallocateInode(tbl, free, id) ==
  <<[tbl EXCEPT ![id] = NilInode], Append(free, id)>>

\* ------------------------------------------------------------------ requests

NamedOps == {"LookUpInode", "MkDir", "CreateFile", "CreateSymlink", "RmDir", "Unlink"}

InodeOps == {"GetInodeAttributes", "SetInodeAttributes", "OpenDir", "ReadDir",
             "OpenFile", "ReadFile", "WriteFile", "ReadSymlink"}

\* A nil op.Size of SetInodeAttributesOp.
NoSize == -1

\* The zero time.Time, which the response fields of a request hold when it
\* arrives.
ZeroTime == 0

\* fs.clock.Now(), in hours.
Now == 1000

\* fs.clock.Now().Add(365 * 24 * time.Hour)
Expiration == Now + 365 * 24

\* The fields of a request beside its type, inode and name, when the
\* request has no use for them.
NoArgs == [target |-> "", data |-> <<>>, offset |-> 0, size |-> NoSize]

\* A request: inode is op.Parent for the operations that take a name and
\* op.Inode for the rest; size is op.Size of ReadFile and SetInodeAttributes.
Request(type, inode, name, args) ==
  [type |-> type, inode |-> inode, name |-> name, target |-> args.target,
   data |-> args.data, offset |-> args.offset, size |-> args.size]

NoOp == Request("none", 0, "", NoArgs)

\* The response fields of a request as it arrives: err is not set, op.Entry
\* and the expirations are zero, op.Data is empty.
NoResp ==
  [err |-> "none", child |-> 0, attrExp |-> ZeroTime, entryExp |-> ZeroTime,
   data |-> <<>>, target |-> ""]

\* The response of a handler that only sets err.
ErrResp(err) == [NoResp EXCEPT !.err = err]

\* op.Entry.Child = childID; op.Entry.AttributesExpiration = the clock's time
\* plus a year; op.Entry.EntryExpiration = op.Entry.EntryExpiration.
EntryResp(child, r) ==
  [r EXCEPT !.err = "OK", !.child = child, !.attrExp = Expiration,
            !.entryExp = r.entryExp]

\* The requests the protocol layer may hand to the file system.  inode is
\* op.Parent for the operations that take a name and op.Inode for the rest.
\* The read and write requests read and write no bytes, and
\* SetInodeAttributes carries no size.
Requests ==
  {Request(type, id, name, NoArgs) :
     type \in NamedOps \ {"CreateSymlink"}, id \in IDs, name \in Names}
  \cup {Request("CreateSymlink", id, name, [NoArgs EXCEPT !.target = tg]) :
          id \in IDs, name \in Names, tg \in Targets}
  \cup {Request(type, id, "", NoArgs) :
          type \in InodeOps \ {"ReadFile"}, id \in IDs}
  \cup {Request("ReadFile", id, "", [NoArgs EXCEPT !.size = 0]) : id \in IDs}

\* NewMemFS
Init ==
  /\ inodes = [i \in 0 .. RootInodeID |->
                 IF i = RootInodeID THEN newInode(Attrs("dir", 0)) ELSE NilInode]
  /\ freeInodes = <<>>
  /\ mu = NoThread
  /\ pc = [t \in Threads |-> "idle"]
  /\ op = [t \in Threads |-> NoOp]
  /\ childID = [t \in Threads |-> 0]
  /\ resp = [t \in Threads |-> NoResp]
  /\ panicked = FALSE
  /\ hist = <<>>

\* ------------------------------------------------------------------ handlers

CreateOps == {"MkDir", "CreateFile", "CreateSymlink"}

\* Whether the protocol layer may send request r in the current state.
\* Operations that take a name are sent for a parent that is a directory, or
\* for an ID that names no inode.  A create request is sent only while the
\* table has room for its inode (the bound of the model).
Sendable(r) ==
  /\ r.type \in NamedOps /\ Occupied(inodes, r.inode) => isDir(inodes[r.inode])
  /\ r.type \in CreateOps => LenInodes(inodes) < MaxInodes

\* A panic unwinds the handler, running its deferred unlocks, and ends the
\* process.
Panic(t) ==
  /\ panicked' = TRUE
  /\ pc' = [pc EXCEPT ![t] = "panic"]
  /\ inodes' = [i \in DOMAIN inodes |->
                  IF inodes[i].mu = t THEN [inodes[i] EXCEPT !.mu = NoThread]
                  ELSE inodes[i]]
  /\ mu' = IF mu = t THEN NoThread ELSE mu
  /\ UNCHANGED <<freeInodes, op, childID, resp, hist>>

\* The operations that change nothing.
ReadOnlyOps ==
  {"LookUpInode", "GetInodeAttributes", "OpenDir", "ReadDir", "OpenFile",
   "ReadFile", "ReadSymlink"}

\* fs.mu as a readers-writer lock that the read-only handlers share.
lockTable_Shared(t, r) ==
  /\ mu = NoThread
  /\ mu' = IF r.type \in ReadOnlyOps THEN NoThread ELSE t
  /\ op' = [op EXCEPT ![t] = r]
  /\ pc' = [pc EXCEPT ![t] = "get"]
  /\ UNCHANGED <<inodes, freeInodes, childID, resp, panicked>>

\* fs.mu.Lock(), the first statement of the handler of request r: the
\* invariant mutex checks the invariants once it is held.  A handler that
\* has not got the lock yet has done nothing, so its thread counts as idle.
lockTable(t, r) ==
  /\ mu = NoThread
  /\ IF checkInvariants(inodes, freeInodes)
     THEN /\ mu' = t
          /\ op' = [op EXCEPT ![t] = r]
          /\ pc' = [pc EXCEPT ![t] = "get"]
          /\ UNCHANGED <<inodes, freeInodes, childID, resp, panicked>>
     ELSE Panic(t)

\* A thread enters the handler of a request and locks the table.
Enter(t) ==
  /\ ~panicked
  /\ pc[t] = "idle"
  /\ mu = NoThread
  /\ \E r \in Requests : Sendable(r) /\ lockTable(t, r)
  /\ UNCHANGED hist

\* getInodeOrDie that answers ENOENT for an ID without an inode.
getInodeOrDie_ENOENT(t, id, next) ==
  IF ~Occupied(inodes, id)
  THEN /\ resp' = [resp EXCEPT ![t] = ErrResp("ENOENT")]
       /\ pc' = [pc EXCEPT ![t] = "unlock"]
       /\ UNCHANGED <<inodes, freeInodes, mu, op, childID, panicked, hist>>
  ELSE /\ inodes[id].mu = NoThread
       /\ inodes' = [inodes EXCEPT ![id].mu = t]
       /\ pc' = [pc EXCEPT ![t] = next]
       /\ UNCHANGED <<freeInodes, mu, op, childID, resp, panicked, hist>>

\* getInodeForModifyingOrDie(id) and getInodeForReadingOrDie(id), then the
\* handler goes on at next.
getInodeOrDie(t, id, next) ==
  IF ~Occupied(inodes, id)
  THEN Panic(t)
  ELSE /\ inodes[id].mu = NoThread
       /\ inodes' = [inodes EXCEPT ![id].mu = t]
       /\ pc' = [pc EXCEPT ![t] = next]
       /\ UNCHANGED <<freeInodes, mu, op, childID, resp, panicked, hist>>

\* Every handler first grabs the inode the request names (op.Parent or
\* op.Inode).
GetInode(t) ==
  /\ ~panicked
  /\ pc[t] = "get"
  /\ getInodeOrDie(t, op[t].inode, "body")

\* LookUpInode, RmDir, Unlink: grab the child.
GetChild(t) ==
  /\ ~panicked
  /\ pc[t] = "getChild"
  /\ getInodeOrDie(t, childID[t], "child")

\* The handler ends with the error err, having locked only op.inode.
Fail(t, err) ==
  /\ resp' = [resp EXCEPT ![t] = ErrResp(err)]
  /\ pc' = [pc EXCEPT ![t] = "unlockInode"]

\* FindChild that takes a missing name for a broken table.
FindChild_Dies(t) ==
  /\ ~panicked
  /\ pc[t] = "body"
  /\ op[t].type \in {"LookUpInode", "RmDir", "Unlink"}
  /\ LET r == LookUpChild(inodes[op[t].inode], op[t].name)
     IN  IF ~r[2]
         THEN Panic(t)
         ELSE /\ childID' = [childID EXCEPT ![t] = r[1]]
              /\ pc' = [pc EXCEPT ![t] = "getChild"]
              /\ UNCHANGED <<inodes, freeInodes, mu, op, resp, panicked, hist>>

\* LookUpInode/RmDir/Unlink: inode.LookUpChild(op.Name), ENOENT if absent.
FindChild(t) ==
  /\ ~panicked
  /\ pc[t] = "body"
  /\ op[t].type \in {"LookUpInode", "RmDir", "Unlink"}
  /\ LET r == LookUpChild(inodes[op[t].inode], op[t].name)
     IN  IF ~r[2]
         THEN Fail(t, "ENOENT") /\ UNCHANGED childID
         ELSE /\ childID' = [childID EXCEPT ![t] = r[1]]
              /\ pc' = [pc EXCEPT ![t] = "getChild"]
              /\ UNCHANGED resp
  /\ UNCHANGED <<inodes, freeInodes, mu, op, panicked, hist>>

\* LookUpInode: fill in the response.
LookUpInode(t) ==
  /\ ~panicked
  /\ pc[t] = "child"
  /\ op[t].type = "LookUpInode"
  /\ resp' = [resp EXCEPT ![t] = EntryResp(childID[t], @)]
  /\ pc' = [pc EXCEPT ![t] = "unlockChild"]
  /\ UNCHANGED <<inodes, freeInodes, mu, op, childID, panicked, hist>>

\* A handler of one inode fills in its response and returns.
respond(t, r) ==
  /\ resp' = [resp EXCEPT ![t] = r]
  /\ pc' = [pc EXCEPT ![t] = "unlockInode"]
  /\ UNCHANGED <<freeInodes, mu, op, childID, panicked, hist>>

\* A handler that sets no field of its response.
respondOK(t) == respond(t, ErrResp("OK")) /\ UNCHANGED inodes

AtBody(t, type) == ~panicked /\ pc[t] = "body" /\ op[t].type = type

\* err as the protocol layer gets it.
ErrOf(err) == IF err = "nil" THEN "OK" ELSE err

\* op.Attributes = inode.attrs; op.AttributesExpiration = the clock's time
\* plus a year.
GetInodeAttributes(t) ==
  /\ AtBody(t, "GetInodeAttributes")
  /\ respond(t, [ErrResp("OK") EXCEPT !.attrExp = Expiration])
  /\ UNCHANGED inodes

\* inode.SetAttributes(op.Size, op.Mode, op.Mtime), which keeps the type
\* bits of the mode and resizes a file when a size is given.
SetInodeAttributes(t) ==
  /\ AtBody(t, "SetInodeAttributes")
  /\ LET id == op[t].inode
     IN  inodes' = IF op[t].size # NoSize /\ isFile(inodes[id])
                   THEN [inodes EXCEPT ![id].contents = Resize(@, op[t].size)]
                   ELSE inodes
  /\ respond(t, [ErrResp("OK") EXCEPT !.attrExp = Expiration])

OpenDir(t) ==
  /\ AtBody(t, "OpenDir")
  /\ IF ~isDir(inodes[op[t].inode]) THEN Panic(t) ELSE respondOK(t)

ReadDir(t) == AtBody(t, "ReadDir") /\ respondOK(t)

OpenFile(t) ==
  /\ AtBody(t, "OpenFile")
  /\ IF ~isFile(inodes[op[t].inode]) THEN Panic(t) ELSE respondOK(t)

\* ReadFile that hands the end-of-data signal on as its error.
ReadFile_KeepsEOF(t) ==
  /\ AtBody(t, "ReadFile")
  /\ LET r == ReadAt(inodes[op[t].inode].contents, op[t].size, op[t].offset)
     IN  respond(t, [ErrResp(ErrOf(r.err)) EXCEPT !.data = SubSeq(r.p, 1, r.n)])
  /\ UNCHANGED inodes

\* op.Data = make([]byte, op.Size); n, err := inode.ReadAt(op.Data,
\* op.Offset); op.Data = op.Data[:n]; an io.EOF is not returned.
ReadFile(t) ==
  /\ AtBody(t, "ReadFile")
  /\ LET r == ReadAt(inodes[op[t].inode].contents, op[t].size, op[t].offset)
         err == IF r.err = "EOF" THEN "nil" ELSE r.err
     IN  respond(t, [ErrResp(ErrOf(err)) EXCEPT !.data = SubSeq(r.p, 1, r.n)])
  /\ UNCHANGED inodes

\* WriteFile that writes at the end of the file, whatever op.Offset is.
WriteFile_AtEnd(t) ==
  /\ AtBody(t, "WriteFile")
  /\ LET id == op[t].inode
         w == WriteAt(inodes[id].contents, op[t].data, Len(inodes[id].contents))
     IN  /\ inodes' = [inodes EXCEPT ![id].contents = w.contents]
         /\ respond(t, ErrResp(ErrOf(w.err)))

\* WriteFile that moves the offset of its request past the bytes written.
WriteFile_MovesOffset(t) ==
  /\ AtBody(t, "WriteFile")
  /\ LET id == op[t].inode
         w == WriteAt(inodes[id].contents, op[t].data, op[t].offset)
     IN  /\ inodes' = [inodes EXCEPT ![id].contents = w.contents]
         /\ resp' = [resp EXCEPT ![t] = ErrResp(ErrOf(w.err))]
         /\ op' = [op EXCEPT ![t].offset = @ + w.n]
  /\ pc' = [pc EXCEPT ![t] = "unlockInode"]
  /\ UNCHANGED <<freeInodes, mu, childID, panicked, hist>>

\* _, err = inode.WriteAt(op.Data, op.Offset)
WriteFile(t) ==
  /\ AtBody(t, "WriteFile")
  /\ LET id == op[t].inode
         w == WriteAt(inodes[id].contents, op[t].data, op[t].offset)
     IN  /\ inodes' = [inodes EXCEPT ![id].contents = w.contents]
         /\ respond(t, ErrResp(ErrOf(w.err)))

\* op.Target = inode.target
ReadSymlink(t) ==
  /\ AtBody(t, "ReadSymlink")
  /\ respond(t, [ErrResp("OK") EXCEPT !.target = inodes[op[t].inode].target])
  /\ UNCHANGED inodes

\* CreateFile without the check for an existing name.
CreateFileCheck_Skipped(t) ==
  /\ ~panicked
  /\ pc[t] = "body"
  /\ op[t].type = "CreateFile"
  /\ pc' = [pc EXCEPT ![t] = "alloc"]
  /\ UNCHANGED <<inodes, freeInodes, mu, op, childID, resp, panicked, hist>>

\* CreateFile: ensure that the name does not exist yet.
CreateFileCheck(t) ==
  /\ ~panicked
  /\ pc[t] = "body"
  /\ op[t].type = "CreateFile"
  /\ IF LookUpChild(inodes[op[t].inode], op[t].name)[2]
     THEN Fail(t, "EEXIST")
     ELSE pc' = [pc EXCEPT ![t] = "alloc"] /\ UNCHANGED resp
  /\ UNCHANGED <<inodes, freeInodes, mu, op, childID, panicked, hist>>

ChildKind(type) ==
  CASE type = "MkDir" -> "dir"
    [] type = "CreateFile" -> "file"
    [] type = "CreateSymlink" -> "symlink"

\* Allocate with childAttrs that leave Nlink zero.
Allocate_NoLink(t) ==
  /\ ~panicked
  /\ \/ pc[t] = "body" /\ op[t].type \in {"MkDir", "CreateSymlink"}
     \/ pc[t] = "alloc" /\ op[t].type = "CreateFile"
  /\ LET r == allocateInode(inodes, freeInodes, Attrs(ChildKind(op[t].type), 0), t)
     IN  /\ childID' = [childID EXCEPT ![t] = r[1]]
         /\ inodes' = r[2]
         /\ freeInodes' = r[3]
  /\ pc' = [pc EXCEPT ![t] = IF op[t].type = "CreateSymlink" THEN "target" ELSE "add"]
  /\ UNCHANGED <<mu, op, resp, panicked, hist>>

\* MkDir, CreateFile, CreateSymlink: allocate a child.
Allocate(t) ==
  /\ ~panicked
  /\ \/ pc[t] = "body" /\ op[t].type \in {"MkDir", "CreateSymlink"}
     \/ pc[t] = "alloc" /\ op[t].type = "CreateFile"
  /\ LET r == allocateInode(inodes, freeInodes, Attrs(ChildKind(op[t].type), 1), t)
     IN  /\ childID' = [childID EXCEPT ![t] = r[1]]
         /\ inodes' = r[2]
         /\ freeInodes' = r[3]
  /\ pc' = [pc EXCEPT ![t] = IF op[t].type = "CreateSymlink" THEN "target" ELSE "add"]
  /\ UNCHANGED <<mu, op, resp, panicked, hist>>

\* CreateSymlink: child.target = op.Target
SetTarget(t) ==
  /\ ~panicked
  /\ pc[t] = "target"
  /\ inodes' = [inodes EXCEPT ![childID[t]].target = op[t].target]
  /\ pc' = [pc EXCEPT ![t] = "add"]
  /\ UNCHANGED <<freeInodes, mu, op, childID, resp, panicked, hist>>

\* AddEntry passing the parent's ID where the child's belongs.
AddEntry_ParentID(t) ==
  /\ ~panicked
  /\ pc[t] = "add"
  /\ inodes' = [inodes EXCEPT ![op[t].inode] =
                  AddChild(@, op[t].inode, op[t].name, ChildKind(op[t].type))]
  /\ resp' = [resp EXCEPT ![t] = EntryResp(childID[t], @)]
  /\ pc' = [pc EXCEPT ![t] = "unlockChild"]
  /\ UNCHANGED <<freeInodes, mu, op, childID, panicked, hist>>

\* MkDir, CreateFile, CreateSymlink: add an entry in the parent and fill in
\* the response.
AddEntry(t) ==
  /\ ~panicked
  /\ pc[t] = "add"
  /\ inodes' = [inodes EXCEPT ![op[t].inode] =
                  AddChild(@, childID[t], op[t].name, ChildKind(op[t].type))]
  /\ resp' = [resp EXCEPT ![t] = EntryResp(childID[t], @)]
  /\ pc' = [pc EXCEPT ![t] = "unlockChild"]
  /\ UNCHANGED <<freeInodes, mu, op, childID, panicked, hist>>

\* removeEntry that also gives the child's slot back.
removeEntry_Deallocate(t) ==
  LET tbl == [inodes EXCEPT ![op[t].inode] = RemoveChild(@, op[t].name)]
      r == deallocateInode(tbl, freeInodes, childID[t])
  IN  /\ inodes' = r[1]
      /\ resp' = [resp EXCEPT ![t] = ErrResp("OK")]

\* parent.RemoveChild(op.Name); child.attrs.Nlink--
removeEntry(t) ==
  /\ inodes' = [inodes EXCEPT
                  ![op[t].inode] = RemoveChild(@, op[t].name),
                  ![childID[t]].nlink = @ - 1]
  /\ resp' = [resp EXCEPT ![t] = ErrResp("OK")]

\* RmDir without the check that the child is empty.
RmDir_NoEmptyCheck(t) ==
  /\ ~panicked
  /\ pc[t] = "child"
  /\ op[t].type = "RmDir"
  /\ removeEntry(t)
  /\ pc' = [pc EXCEPT ![t] = "unlockChild"]
  /\ UNCHANGED <<freeInodes, mu, op, childID, panicked, hist>>

\* RmDir: make sure the child is empty, then remove it.
RmDir(t) ==
  /\ ~panicked
  /\ pc[t] = "child"
  /\ op[t].type = "RmDir"
  /\ IF DirLen(inodes[childID[t]]) # 0
     THEN /\ resp' = [resp EXCEPT ![t] = ErrResp("ENOTEMPTY")]
          /\ UNCHANGED inodes
     ELSE removeEntry(t)
  /\ pc' = [pc EXCEPT ![t] = "unlockChild"]
  /\ UNCHANGED <<freeInodes, mu, op, childID, panicked, hist>>

\* Unlink that gives the child's slot back at once.
Unlink_Reclaims(t) ==
  /\ ~panicked
  /\ pc[t] = "child"
  /\ op[t].type = "Unlink"
  /\ LET tbl == [inodes EXCEPT ![op[t].inode] = RemoveChild(@, op[t].name)]
         r == deallocateInode(tbl, freeInodes, childID[t])
     IN  /\ inodes' = r[1]
         /\ freeInodes' = r[2]
  /\ resp' = [resp EXCEPT ![t] = ErrResp("OK")]
  /\ pc' = [pc EXCEPT ![t] = "unlockInode"]
  /\ UNCHANGED <<mu, op, childID, panicked, hist>>

\* Unlink: remove the child.
Unlink(t) ==
  /\ ~panicked
  /\ pc[t] = "child"
  /\ op[t].type = "Unlink"
  /\ removeEntry(t)
  /\ pc' = [pc EXCEPT ![t] = "unlockChild"]
  /\ UNCHANGED <<freeInodes, mu, op, childID, panicked, hist>>

\* defer child.mu.Unlock()
UnlockChild(t) ==
  /\ ~panicked
  /\ pc[t] = "unlockChild"
  /\ inodes' = [inodes EXCEPT ![childID[t]].mu = NoThread]
  /\ pc' = [pc EXCEPT ![t] = "unlockInode"]
  /\ UNCHANGED <<freeInodes, mu, op, childID, resp, panicked, hist>>

\* A handler that lacks the deferred unlock of its inode.
UnlockInode_Missing(t) ==
  /\ ~panicked
  /\ pc[t] = "unlockInode"
  /\ pc' = [pc EXCEPT ![t] = "unlock"]
  /\ UNCHANGED <<inodes, freeInodes, mu, op, childID, resp, panicked, hist>>

\* defer inode.mu.Unlock() / defer parent.mu.Unlock()
UnlockInode(t) ==
  /\ ~panicked
  /\ pc[t] = "unlockInode"
  /\ inodes' = [inodes EXCEPT ![op[t].inode].mu = NoThread]
  /\ pc' = [pc EXCEPT ![t] = "unlock"]
  /\ UNCHANGED <<freeInodes, mu, op, childID, resp, panicked, hist>>

\* defer fs.mu.Unlock(): the invariant mutex checks the invariants first;
\* then defer fuseutil.RespondToOp(op, &err): the response leaves and the
\* handler returns.
Unlock(t) ==
  /\ ~panicked
  /\ pc[t] = "unlock"
  /\ IF checkInvariants(inodes, freeInodes)
     THEN /\ mu' = NoThread
          /\ pc' = [pc EXCEPT ![t] = "idle"]
          /\ op' = [op EXCEPT ![t] = NoOp]
          /\ childID' = [childID EXCEPT ![t] = 0]
          /\ resp' = [resp EXCEPT ![t] = NoResp]
          /\ UNCHANGED <<inodes, freeInodes, panicked, hist>>
     ELSE Panic(t)

\* The steps of a handler that holds the table lock.
Step(t) ==
  \/ GetInode(t)
  \/ GetChild(t)
  \/ FindChild(t)
  \/ LookUpInode(t)
  \/ GetInodeAttributes(t)
  \/ SetInodeAttributes(t)
  \/ OpenDir(t)
  \/ ReadDir(t)
  \/ OpenFile(t)
  \/ ReadFile(t)
  \/ WriteFile(t)
  \/ ReadSymlink(t)
  \/ CreateFileCheck(t)
  \/ Allocate(t)
  \/ SetTarget(t)
  \/ AddEntry(t)
  \/ RmDir(t)
  \/ Unlink(t)
  \/ UnlockChild(t)
  \/ UnlockInode(t)

Next == \E t \in Threads : Enter(t) \/ Step(t) \/ Unlock(t)

Spec == Init /\ [][Next]_vars

\* A handler is a goroutine of its own: it keeps running.
FairSpec == Spec /\ \A t \in Threads : WF_vars(Step(t) \/ Unlock(t))

\* ------------------------------------------------------------------ two racing calls

Racers == {1, 2}

\* With every thread idle, the protocol layer sends the same CreateFile
\* request, for a name that the parent does not hold, to two handlers at
\* once, and sends no request after that.
StartRace ==
  /\ ~panicked
  /\ hist = <<>>
  /\ \A t \in Threads : pc[t] = "idle"
  /\ \E p \in IDs, n \in Names :
       LET r == Request("CreateFile", p, n, NoArgs)
       IN  /\ Occupied(inodes, p)
           /\ Sendable(r)
           /\ ~LookUpChild(inodes[p], n)[2]
           /\ op' = [t \in Threads |-> IF t \in Racers THEN r ELSE op[t]]
           /\ hist' = <<[call |-> "race", id |-> p, occupied |-> TRUE,
                         len |-> LenInodes(inodes)]>>
  /\ pc' = [t \in Threads |-> IF t \in Racers THEN "lock" ELSE pc[t]]
  /\ UNCHANGED <<inodes, freeInodes, mu, childID, resp, panicked>>

\* fs.mu.Lock() of a racing handler.
RaceLock(t) ==
  /\ ~panicked
  /\ pc[t] = "lock"
  /\ lockTable(t, op[t])
  /\ UNCHANGED hist

\* defer fs.mu.Unlock() of a racing handler, whose response is kept.
RaceUnlock(t) ==
  /\ ~panicked
  /\ hist # <<>>
  /\ pc[t] = "unlock"
  /\ IF checkInvariants(inodes, freeInodes)
     THEN /\ mu' = NoThread
          /\ pc' = [pc EXCEPT ![t] = "done"]
          /\ UNCHANGED <<inodes, freeInodes, op, childID, resp, panicked, hist>>
     ELSE Panic(t)

NextRace ==
  \/ StartRace
  \/ \E t \in Threads :
       \/ hist = <<>> /\ (Enter(t) \/ Unlock(t))
       \/ Step(t)
       \/ RaceLock(t)
       \/ RaceUnlock(t)

SpecRace == Init /\ [][NextRace]_vars

\* ------------------------------------------------------------------ one call at a time

\* The handler of request r run alone, from fs.mu.Lock() to its return, on
\* the table tbl and the free list free: the table and the free list it
\* leaves and the response; resp.err is "panic" if it panics.
Serial(r, tbl, free) ==
  LET id == r.inode
      same(rs) == [tbl |-> tbl, free |-> free, resp |-> rs]
      panic == same(ErrResp("panic"))
      c == LookUpChild(tbl[id], r.name)
  IN  IF ~checkInvariants(tbl, free) \/ ~Occupied(tbl, id) THEN panic
      ELSE CASE r.type = "LookUpInode" ->
                  IF ~c[2] THEN same(ErrResp("ENOENT"))
                  ELSE IF ~Occupied(tbl, c[1]) THEN panic
                  ELSE same(EntryResp(c[1], NoResp))
             [] r.type \in CreateOps ->
                  IF r.type = "CreateFile" /\ c[2] THEN same(ErrResp("EEXIST"))
                  ELSE LET a == allocateInode(tbl, free, Attrs(ChildKind(r.type), 1),
                                              NoThread)
                           child == IF r.type = "CreateSymlink"
                                    THEN [a[2][a[1]] EXCEPT !.target = r.target]
                                    ELSE a[2][a[1]]
                       IN  [tbl |-> [a[2] EXCEPT
                                       ![a[1]] = child,
                                       ![id] = AddChild(a[2][id], a[1], r.name,
                                                        ChildKind(r.type))],
                            free |-> a[3],
                            resp |-> EntryResp(a[1], NoResp)]
             [] r.type \in {"RmDir", "Unlink"} ->
                  IF ~c[2] THEN same(ErrResp("ENOENT"))
                  ELSE IF ~Occupied(tbl, c[1]) THEN panic
                  ELSE IF r.type = "RmDir" /\ DirLen(tbl[c[1]]) # 0
                  THEN same(ErrResp("ENOTEMPTY"))
                  ELSE [tbl |-> [tbl EXCEPT ![id] = RemoveChild(@, r.name),
                                            ![c[1]].nlink = @ - 1],
                        free |-> free,
                        resp |-> ErrResp("OK")]
             [] r.type \in {"GetInodeAttributes", "SetInodeAttributes"} ->
                  [tbl |-> IF r.type = "SetInodeAttributes" /\ r.size # NoSize
                              /\ isFile(tbl[id])
                           THEN [tbl EXCEPT ![id].contents = Resize(@, r.size)]
                           ELSE tbl,
                   free |-> free,
                   resp |-> [ErrResp("OK") EXCEPT !.attrExp = Expiration]]
             [] r.type = "OpenDir" ->
                  IF ~isDir(tbl[id]) THEN panic ELSE same(ErrResp("OK"))
             [] r.type = "OpenFile" ->
                  IF ~isFile(tbl[id]) THEN panic ELSE same(ErrResp("OK"))
             [] r.type = "ReadDir" -> same(ErrResp("OK"))
             [] r.type = "ReadFile" ->
                  LET rd == ReadAt(tbl[id].contents, r.size, r.offset)
                  IN  same([ErrResp("OK") EXCEPT !.data = SubSeq(rd.p, 1, rd.n)])
             [] r.type = "WriteFile" ->
                  [tbl |-> [tbl EXCEPT ![id].contents =
                              WriteAt(@, r.data, r.offset).contents],
                   free |-> free,
                   resp |-> ErrResp("OK")]
             [] r.type = "ReadSymlink" ->
                  same([ErrResp("OK") EXCEPT !.target = tbl[id].target])

\* The table and the free list as a handler finds them when it gets fs.mu.
Snapshot == [call |-> "enter", tbl |-> inodes, free |-> freeInodes]

\* A thread enters the handler of a request and locks the table; hist keeps
\* what the handler found.
EnterLogged(t) ==
  /\ ~panicked
  /\ pc[t] = "idle"
  /\ mu = NoThread
  /\ \E r \in Requests : Sendable(r) /\ lockTable(t, r)
  /\ hist' = <<Snapshot>>

NextSerial == \E t \in Threads : EnterLogged(t) \/ Step(t) \/ Unlock(t)

SpecSerial == Init /\ [][NextSerial]_vars

\* ------------------------------------------------------------------ one file

\* "taco"
Taco == <<116, 97, 99, 111>>

\* op.Data of the write requests.
WriteData == {<<>>, <<120>>, Taco}

Offsets == 0 .. MaxOffset

\* op.Size of the read requests.
ReadSizes == {0, 1, 4}

\* op.Size of the SetInodeAttributes requests.
TruncateSizes == {NoSize, 0, 2, 4}

\* The requests of SpecFile: the file "a" is created in the root, and is
\* written, read and resized.
FileRequests ==
  {Request("CreateFile", RootInodeID, "a", NoArgs)}
  \cup {Request("WriteFile", id, "", [NoArgs EXCEPT !.data = d, !.offset = o]) :
          id \in IDs, d \in WriteData, o \in Offsets}
  \cup {Request("ReadFile", id, "", [NoArgs EXCEPT !.size = n, !.offset = o]) :
          id \in IDs, n \in ReadSizes, o \in Offsets}
  \cup {Request("SetInodeAttributes", id, "", [NoArgs EXCEPT !.size = n]) :
          id \in IDs, n \in TruncateSizes}

\* The protocol layer sends the requests that read, write and resize for
\* the inodes that are files.
SendableFile(r) ==
  r.type # "CreateFile" => Occupied(inodes, r.inode) /\ isFile(inodes[r.inode])

EnterFile(t) ==
  /\ ~panicked
  /\ pc[t] = "idle"
  /\ mu = NoThread
  /\ \E r \in FileRequests : SendableFile(r) /\ lockTable(t, r)
  /\ hist' = <<Snapshot>>

StepFile(t) ==
  \/ GetInode(t)
  \/ SetInodeAttributes(t)
  \/ ReadFile(t)
  \/ WriteFile(t)
  \/ CreateFileCheck(t)
  \/ Allocate(t)
  \/ AddEntry(t)
  \/ UnlockChild(t)
  \/ UnlockInode(t)

NextFile == \E t \in Threads : EnterFile(t) \/ StepFile(t) \/ Unlock(t)

SpecFile == Init /\ [][NextFile]_vars

\* ------------------------------------------------------------------ the table alone

Kinds == {"dir", "file", "symlink"}

\* One call of the table harness, as hist keeps it: the ID returned or
\* passed, whether its slot was occupied before the call, and len(fs.inodes)
\* before the call.
CallRecord(call, id) ==
  [call |-> call, id |-> id, occupied |-> Occupied(inodes, id), len |-> LenInodes(inodes)]

\* A caller holding fs.mu allocates an inode and unlocks it.
TableAllocate ==
  /\ Len(hist) < MaxCalls
  /\ LenInodes(inodes) < MaxInodes \/ freeInodes # <<>>
  /\ \E kind \in Kinds :
       LET r == allocateInode(inodes, freeInodes, Attrs(kind, 1), 1)
       IN  /\ inodes' = [r[2] EXCEPT ![r[1]].mu = NoThread]
           /\ freeInodes' = r[3]
           /\ hist' = Append(hist, CallRecord("allocate", r[1]))
  /\ UNCHANGED <<mu, pc, op, childID, resp, panicked>>

\* A caller holding fs.mu deallocates an ID of the table.
TableDeallocate ==
  /\ Len(hist) < MaxCalls
  /\ \E id \in DOMAIN inodes :
       LET r == deallocateInode(inodes, freeInodes, id)
       IN  /\ inodes' = r[1]
           /\ freeInodes' = r[2]
           /\ hist' = Append(hist, CallRecord("deallocate", id))
  /\ UNCHANGED <<mu, pc, op, childID, resp, panicked>>

NextTable == TableAllocate \/ TableDeallocate

SpecTable == Init /\ [][NextTable]_vars

\* ------------------------------------------------------------------ checkInvariants alone

\* What a slot of the table may hold.
SlotValues == {NilInode, newInode(Attrs("dir", 1)), newInode(Attrs("file", 1))}

\* Any table that is long enough to have a root slot, with any free list:
\* the IDs of the free list may repeat, be reserved, name the root or an
\* occupied slot, or lie past the table.
InitOracle ==
  /\ \E n \in (RootInodeID + 1) .. MaxInodes : inodes \in [0 .. (n - 1) -> SlotValues]
  /\ \E n \in 0 .. MaxFree : freeInodes \in [1 .. n -> 0 .. MaxInodes]
  /\ mu = NoThread
  /\ pc = [t \in Threads |-> "idle"]
  /\ op = [t \in Threads |-> NoOp]
  /\ childID = [t \in Threads |-> 0]
  /\ resp = [t \in Threads |-> NoResp]
  /\ panicked = FALSE
  /\ hist = <<>>

\* fs.checkInvariants() is called; hist keeps whether it returned.
CheckTable ==
  /\ hist = <<>>
  /\ hist' = <<[call |-> "checkInvariants", ok |-> checkInvariants(inodes, freeInodes)]>>
  /\ UNCHANGED <<inodes, freeInodes, mu, pc, op, childID, resp, panicked>>

NextOracle == CheckTable

SpecOracle == InitOracle /\ [][NextOracle]_vars

\* ------------------------------------------------------------------ claims

\* The free list holds exactly the vacant slots above the root, each once.
FreeListExact ==
  /\ \A i \in DOMAIN inodes :
       i > RootInodeID /\ inodes[i] = NilInode =>
         \E k \in 1 .. Len(freeInodes) : freeInodes[k] = i
  /\ \A k \in 1 .. Len(freeInodes) :
       /\ freeInodes[k] > RootInodeID
       /\ freeInodes[k] \in DOMAIN inodes
       /\ inodes[freeInodes[k]] = NilInode
  /\ \A j, k \in 1 .. Len(freeInodes) : freeInodes[j] = freeInodes[k] => j = k

\* Every deallocateInode call so far was given an ID above the root whose
\* slot was occupied.
ProperDeallocations ==
  \A k \in 1 .. Len(hist) :
    hist[k].call = "deallocate" => hist[k].id > RootInodeID /\ hist[k].occupied

\* C1 as stated: after any sequence of allocateInode and deallocateInode
\* calls, deallocateInode being given any ID of the table, the free list
\* holds exactly the vacant slots above the root, each once, and
\* checkInvariants does not panic.
C1_AnyTableID == FreeListExact /\ checkInvariants(inodes, freeInodes)

\* C1 amended: after any sequence of allocateInode and deallocateInode
\* calls in which every deallocateInode was given an ID above the root
\* whose slot was occupied, the free list holds exactly the vacant slots
\* above the root, each once, and checkInvariants does not panic.
C1_FreeListExact ==
  ProperDeallocations => FreeListExact /\ checkInvariants(inodes, freeInodes)

\* Two IDs were deallocated, one was reused, one is still free.
C1_Witness ==
  /\ ProperDeallocations
  /\ Len(freeInodes) = 1
  /\ Len(hist) >= 5
  /\ hist[Len(hist)].call = "allocate"
  /\ hist[Len(hist)].occupied = FALSE
  /\ hist[Len(hist)].id < hist[Len(hist)].len

\* The stack of deallocated IDs after the first k calls: a deallocation
\* pushes its ID, an allocation pops one if there is any.
RECURSIVE FreedStack(_)
FreedStack(k) ==
  IF k = 0 THEN <<>>
  ELSE LET s == FreedStack(k - 1)
       IN  IF hist[k].call = "deallocate" THEN Append(s, hist[k].id)
           ELSE IF s = <<>> THEN s
           ELSE SubSeq(s, 1, Len(s) - 1)

\* C3: ID reuse is LIFO.  Every allocateInode call returns the most
\* recently deallocated ID that was not handed out again, and a new slot
\* (ID = the table length before the call) only when there is none; two
\* deallocations of x then y followed by two allocations return y then x.
C3_LifoReuse ==
  /\ \A k \in 1 .. Len(hist) :
       hist[k].call = "allocate" =>
         LET s == FreedStack(k - 1)
         IN  IF s # <<>> THEN hist[k].id = s[Len(s)]
             ELSE hist[k].id = hist[k].len
  /\ \A k \in 1 .. (Len(hist) - 3) :
       /\ hist[k].call = "deallocate" /\ hist[k + 1].call = "deallocate"
       /\ hist[k + 2].call = "allocate" /\ hist[k + 3].call = "allocate"
       => hist[k + 2].id = hist[k + 1].id /\ hist[k + 3].id = hist[k].id

\* IDs 2 then 3 were deallocated, and the next allocations returned 3 then 2.
C3_Witness ==
  /\ Len(hist) = 6
  /\ hist[3] = [call |-> "deallocate", id |-> 2, occupied |-> TRUE, len |-> 4]
  /\ hist[4] = [call |-> "deallocate", id |-> 3, occupied |-> TRUE, len |-> 4]
  /\ hist[5].call = "allocate" /\ hist[5].id = 3
  /\ hist[6].call = "allocate" /\ hist[6].id = 2

\* The inodes of the table without their locks.
Data(tbl) == [i \in DOMAIN tbl |-> [tbl[i] EXCEPT !.mu = NoThread]]

\* The number of entries of the given name.
CountName(entries, name) ==
  Cardinality({k \in 1 .. Len(entries) : entries[k].name = name})

\* The inode locks thread t holds.
Held(tbl, t) == {i \in DOMAIN tbl : tbl[i].mu = t}

C4_OneCreateWins ==
  (\A t \in Racers : pc[t] = "done") =>
    /\ {resp[t].err : t \in Racers} = {"OK", "EEXIST"}
    /\ Cardinality({t \in Racers : resp[t].err = "OK"}) = 1
    /\ CountName(inodes[hist[1].id].entries, op[1].name) = 1
    /\ LenInodes(inodes) = hist[1].len + 1
    /\ freeInodes = <<>>

\* Both calls have returned; the second thread won the race, in a
\* directory other than the root.
C4_Witness ==
  /\ \A t \in Racers : pc[t] = "done"
  /\ op[1] = op[2]
  /\ op[1].type = "CreateFile"
  /\ op[1].inode = 2
  /\ resp[1].err = "EEXIST"
  /\ resp[2].err = "OK"

\* C5: no directory holds two entries of the same name.
C5_NamesUnique ==
  \A i \in DOMAIN inodes : \A n \in Names : CountName(inodes[i].entries, n) <= 1

\* C6: a create-type handler (MkDir, CreateFile, CreateSymlink) that has
\* locked a parent holding the name of its request answers EEXIST, and its
\* step changes neither the table nor the free list.
C6_CreateRejectsExisting ==
  [][\A t \in Threads :
       /\ op[t].type \in CreateOps
       /\ pc[t] = "body"
       /\ pc'[t] # "body"
       /\ LookUpChild(inodes[op[t].inode], op[t].name)[2]
       => /\ resp'[t].err = "EEXIST"
          /\ inodes' = inodes
          /\ freeInodes' = freeInodes]_vars

\* C7: RmDir on a name whose child has entries answers ENOTEMPTY, and no
\* step of an RmDir handler, other than the removal of an empty child,
\* changes an inode, the table length or the free list.
C7_RmDirNotEmpty ==
  [][\A t \in Threads :
       /\ op[t].type = "RmDir"
       /\ pc'[t] # pc[t]
       /\ ~(pc[t] = "child" /\ DirLen(inodes[childID[t]]) = 0)
       => /\ Data(inodes') = Data(inodes)
          /\ freeInodes' = freeInodes
          /\ pc[t] = "child" => resp'[t].err = "ENOTEMPTY" /\ pc'[t] = "unlockChild"
          /\ pc[t] \in {"unlockChild", "unlockInode"} => resp'[t] = resp[t]]_vars

\* An RmDir handler has answered ENOTEMPTY.
C7_Witness ==
  \E t \in Threads :
    /\ op[t].type = "RmDir"
    /\ pc[t] = "unlock"
    /\ resp[t].err = "ENOTEMPTY"
    /\ DirLen(inodes[childID[t]]) = 1

\* The entries without the first one of the given name.
WithoutFirst(entries, name) ==
  LET k == CHOOSE j \in 1 .. Len(entries) :
             /\ entries[j].name = name
             /\ \A i \in 1 .. (j - 1) : entries[i].name # name
  IN  [i \in 1 .. (Len(entries) - 1) |-> IF i < k THEN entries[i] ELSE entries[i + 1]]

\* C8: the removing step of a successful Unlink or RmDir takes exactly
\* the named entry out of the parent, decrements the child's link count by
\* one and changes no other inode; the child's slot stays occupied and the
\* free list is as before.  No step at all vacates a slot, so the child
\* stays resolvable by its ID.
C8_RemoveKeepsInode ==
  /\ [][\A t \in Threads :
          /\ op[t].type \in {"RmDir", "Unlink"}
          /\ pc[t] = "child"
          /\ pc'[t] # "child"
          /\ resp'[t].err = "OK"
          => LET p == op[t].inode
                 c == childID[t]
             IN  /\ CountName(inodes[p].entries, op[t].name) >= 1
                 /\ inodes'[p].entries = WithoutFirst(inodes[p].entries, op[t].name)
                 /\ inodes'[c].nlink = inodes[c].nlink - 1
                 /\ inodes'[c].entries = inodes[c].entries
                 /\ inodes'[c].kind = inodes[c].kind
                 /\ Occupied(inodes', c)
                 /\ DOMAIN inodes' = DOMAIN inodes
                 /\ \A i \in DOMAIN inodes : i \notin {p, c} => inodes'[i] = inodes[i]
                 /\ freeInodes' = freeInodes]_vars
  /\ [][\A i \in DOMAIN inodes : Occupied(inodes, i) => Occupied(inodes', i)]_vars

\* GetInodeAttributes has answered for an inode that was unlinked: no
\* entry names it and its link count is zero.
C8_Witness ==
  \E t \in Threads :
    /\ op[t].type = "GetInodeAttributes"
    /\ pc[t] = "unlock"
    /\ resp[t].err = "OK"
    /\ op[t].inode > RootInodeID
    /\ inodes[op[t].inode].nlink = 0
    /\ \A i \in DOMAIN inodes : \A k \in 1 .. Len(inodes[i].entries) :
         inodes[i].entries[k].child # op[t].inode

\* C9: a thread holds an inode lock only while it holds the table lock; it
\* takes the table lock holding no inode lock; it gives the table lock back
\* holding no inode lock; and it locks an inode other than the one its
\* request names (the child) only while it holds that one (the parent).
C9_LockDiscipline ==
  /\ [](\A t \in Threads : Held(inodes, t) # {} => mu = t)
  /\ [][\A t \in Threads :
          /\ mu # t /\ mu' = t => Held(inodes, t) = {}
          /\ mu = t /\ mu' # t =>
               /\ Held(inodes', t) = {}
               /\ ~panicked' => Held(inodes, t) = {}
          /\ \A i \in Held(inodes', t) \ Held(inodes, t) :
               /\ mu = t
               /\ i # op[t].inode => op[t].inode \in Held(inodes, t)]_vars

\* A thread holds the table lock, the parent's lock and the child's lock.
C9_Witness ==
  \E t \in Threads :
    /\ mu = t
    /\ op[t].type = "Unlink"
    /\ pc[t] = "child"
    /\ Held(inodes, t) = {op[t].inode, childID[t]}
    /\ childID[t] # op[t].inode

\* C10: no handler is about to lock an inode it has locked already (the
\* child a directory entry names is never the directory itself); a handler
\* that has started holds the table lock until it returns or panics, and
\* holds no inode lock after that; and under fair scheduling the table lock
\* is always given back, so every handler that has started returns, or the
\* process ends in a panic, with all locks of the handler released.
C10_NoDeadlock ==
  /\ [](\A t \in Threads :
          /\ pc[t] = "getChild" =>
               childID[t] # op[t].inode /\ childID[t] \notin Held(inodes, t)
          /\ pc[t] \notin {"idle", "panic"} => mu = t
          /\ pc[t] \in {"idle", "panic"} => mu # t /\ Held(inodes, t) = {})
  /\ (mu # NoThread) ~> (mu = NoThread)

\* A handler is about to lock a child while it holds the parent's lock.
C10_Witness ==
  \E t \in Threads :
    /\ pc[t] = "getChild"
    /\ op[t].type = "RmDir"
    /\ op[t].inode \in Held(inodes, t)
    /\ inodes[childID[t]].mu = NoThread

\* The handlers that are between fs.mu.Lock() and their return.
Running == {t \in Threads : pc[t] \notin {"idle", "panic"}}

\* C11: at most one handler, read-only ones included, is between its
\* fs.mu.Lock() and its return; no step changes the table or the free list
\* while no handler holds fs.mu, so each handler finds what the one before
\* it left; and a handler about to return has produced the table, the free
\* list and the response that the same request gives when it runs alone on
\* what the handler found when it got fs.mu (a handler that panics has
\* changed nothing, and alone it panics as well).
C11_Serialized ==
  /\ [](/\ Cardinality(Running) <= 1
        /\ \A t \in Running : mu = t)
  /\ [][mu = NoThread /\ mu' = NoThread =>
         inodes' = inodes /\ freeInodes' = freeInodes]_vars
  /\ [][\A t \in Threads : mu # t /\ mu' = t =>
         hist' = <<[call |-> "enter", tbl |-> inodes', free |-> freeInodes']>>
         /\ inodes' = inodes /\ freeInodes' = freeInodes]_vars
  /\ [](\A t \in Threads :
          hist # <<>> =>
            LET s == Serial(op[t], hist[1].tbl, hist[1].free)
            IN  /\ pc[t] = "unlock" =>
                     /\ Data(inodes) = Data(s.tbl)
                     /\ freeInodes = s.free
                     /\ resp[t] = s.resp
                /\ pc[t] = "panic" =>
                     /\ s.resp.err = "panic"
                     /\ Data(inodes) = Data(hist[1].tbl)
                     /\ freeInodes = hist[1].free)

\* A second thread removes the directory the first thread made, and is
\* about to return.
C11_Witness ==
  /\ hist # <<>>
  /\ pc[2] = "unlock"
  /\ op[2].type = "RmDir"
  /\ resp[2].err = "OK"
  /\ LenInodes(hist[1].tbl) = 4
  /\ Len(hist[1].tbl[RootInodeID].entries) = 2
  /\ Len(inodes[RootInodeID].entries) = 1

\* C12: the step of WriteFile on a file of size s with data d at offset o
\* answers without an error, the content store having reported len(d)
\* bytes written; the new size is max(s, o+len(d)); the bytes [o, o+len(d))
\* are d, the bytes of the gap [s, o) are zero, and every other byte below
\* s is as before.  A file that was empty, or resized to 2 or to 4, reads
\* \x00\x00taco after "taco" is written at 2.
C12_WriteSemantics ==
  /\ [][\A t \in Threads :
          AtBody(t, "WriteFile") /\ pc'[t] # "body" /\ ~panicked' =>
            LET id == op[t].inode
                old == inodes[id].contents
                new == inodes'[id].contents
                d == op[t].data
                o == op[t].offset
                s == Len(old)
                end == o + Len(d)
            IN  /\ resp'[t].err = "OK"
                /\ WriteAt(old, d, o).n = Len(d)
                /\ Len(new) = IF s > end THEN s ELSE end
                /\ \A i \in 0 .. (Len(new) - 1) :
                     new[i + 1] = IF o <= i /\ i < end THEN d[i - o + 1]
                                  ELSE IF i < s THEN old[i + 1]
                                  ELSE 0]_vars
  /\ [](\A t \in Threads :
          /\ hist # <<>>
          /\ pc[t] = "unlockInode"
          /\ op[t].type = "WriteFile" /\ op[t].data = Taco /\ op[t].offset = 2
          /\ hist[1].tbl[op[t].inode].contents \in {<<>>, <<0, 0>>, <<0, 0, 0, 0>>}
          => inodes[op[t].inode].contents = <<0, 0, 116, 97, 99, 111>>)

\* The file was resized to 4, and "taco" was written at 2.
C12_Witness ==
  \E t \in Threads :
    /\ hist # <<>>
    /\ pc[t] = "unlockInode"
    /\ op[t].type = "WriteFile" /\ op[t].data = Taco /\ op[t].offset = 2
    /\ hist[1].tbl[op[t].inode].contents = <<0, 0, 0, 0>>
    /\ inodes[op[t].inode].contents = <<0, 0, 116, 97, 99, 111>>
    /\ resp[t].err = "OK"

\* C13: ReadFile of n bytes at offset o of a file of size s answers
\* without an error, with exactly the bytes [o, min(o+n, s)) of the
\* content, max(0, min(n, s-o)) of them; the content store signals
\* end-of-data exactly when o+n > s, with no bytes if o >= s.
C13_ReadSemantics ==
  \A t \in Threads :
    pc[t] = "unlockInode" /\ op[t].type = "ReadFile" =>
      LET c == inodes[op[t].inode].contents
          s == Len(c)
          o == op[t].offset
          n == op[t].size
          avail == IF s - o < n THEN s - o ELSE n
          count == IF avail < 0 THEN 0 ELSE avail
          r == ReadAt(c, n, o)
      IN  /\ resp[t].err = "OK"
          /\ Len(resp[t].data) = count
          /\ \A k \in 1 .. count : resp[t].data[k] = c[o + k]
          /\ (r.err = "EOF") <=> (o + n > s)
          /\ r.n = count
          /\ o >= s => r.n = 0

\* Four bytes were read at offset 2 of "taco": the answer is "co".
C13_Witness ==
  \E t \in Threads :
    /\ pc[t] = "unlockInode"
    /\ op[t].type = "ReadFile" /\ op[t].size = 4 /\ op[t].offset = 2
    /\ inodes[op[t].inode].contents = Taco
    /\ resp[t].err = "OK"
    /\ resp[t].data = <<99, 111>>

\* C14: a LookUpInode, Unlink or RmDir handler that finds no entry of its
\* name in the parent answers ENOENT and goes on to unlock the parent and
\* the table: it does not panic, it locks no inode beside the parent, and
\* none of its steps changes an inode, the table or the free list.
C14_NotFound ==
  [][\A t \in Threads :
       /\ op[t].type \in {"LookUpInode", "RmDir", "Unlink"}
       /\ pc'[t] # pc[t]
       /\ \/ pc[t] = "body" /\ ~LookUpChild(inodes[op[t].inode], op[t].name)[2]
          \/ pc[t] \in {"unlockInode", "unlock"} /\ resp[t].err = "ENOENT"
       => /\ ~panicked'
          /\ Data(inodes') = Data(inodes)
          /\ freeInodes' = freeInodes
          /\ pc[t] = "body" =>
               /\ resp'[t] = ErrResp("ENOENT")
               /\ pc'[t] = "unlockInode"
               /\ Held(inodes', t) = {op[t].inode}
          /\ pc[t] = "unlockInode" =>
               /\ resp'[t] = resp[t]
               /\ pc'[t] = "unlock"
               /\ Held(inodes', t) = {}
          /\ pc[t] = "unlock" => pc'[t] = "idle" /\ mu' = NoThread]_vars

\* An Unlink handler has answered ENOENT for a name missing in a
\* directory that holds another name.
C14_Witness ==
  \E t \in Threads :
    /\ op[t].type = "Unlink"
    /\ pc[t] = "unlock"
    /\ resp[t].err = "ENOENT"
    /\ op[t].inode > RootInodeID
    /\ DirLen(inodes[op[t].inode]) = 1
    /\ ~LookUpChild(inodes[op[t].inode], op[t].name)[2]

\* The inodes that a create handler has allocated and not yet linked into
\* the parent.
Fresh == {childID[t] : t \in {u \in Threads : pc[u] \in {"target", "add"}}}

\* Whether some entry of the table names inode i.
Linked(tbl, i) ==
  \E p \in DOMAIN tbl : \E k \in 1 .. Len(tbl[p].entries) : tbl[p].entries[k].child = i

\* The inode a running LookUpInode, GetInodeAttributes or ReadSymlink
\* handler reads, if it has one locked.
Observed(t) ==
  IF op[t].type = "LookUpInode" /\ pc[t] \in {"child", "unlockChild"}
  THEN {childID[t]}
  ELSE IF op[t].type \in {"GetInodeAttributes", "ReadSymlink"}
          /\ pc[t] \in {"body", "unlockInode"}
  THEN {op[t].inode}
  ELSE {}

\* C15: from its allocation until its entry is added to the parent, a new
\* inode is locked by the handler that allocated it, which holds fs.mu,
\* and no other handler runs; so an inode that LookUpInode,
\* GetInodeAttributes or ReadSymlink reads is never one that is not yet
\* linked, and a symlink that one of them reads has its target set.
C15_NewInodeHidden ==
  /\ \A t \in Threads :
       pc[t] \in {"target", "add"} =>
         /\ Occupied(inodes, childID[t])
         /\ ~Linked(inodes, childID[t])
         /\ inodes[childID[t]].mu = t
         /\ mu = t
         /\ \A u \in Threads \ {t} : pc[u] \in {"idle", "panic"} /\ Held(inodes, u) = {}
  /\ \A u \in Threads : \A i \in Observed(u) :
       /\ i \notin Fresh
       /\ inodes[i].kind = "symlink" => inodes[i].target \in Targets

\* A CreateSymlink handler has allocated its inode, whose target is not
\* set and which no entry names yet, while the table holds inodes that
\* other requests made.
C15_Witness ==
  \E t \in Threads :
    /\ pc[t] = "target"
    /\ op[t].type = "CreateSymlink"
    /\ childID[t] = 3
    /\ inodes[3].kind = "symlink" /\ inodes[3].target = ""
    /\ ~Linked(inodes, 3)
    /\ Linked(inodes, 2)

\* C16: every successful response that carries a directory entry (of
\* LookUpInode, MkDir, CreateFile, CreateSymlink) has its attribute
\* expiration and its entry expiration later than the clock's time, and so
\* has the attribute expiration of every GetInodeAttributes and
\* SetInodeAttributes response.
C16_ExpirationsFar ==
  \A t \in Threads :
    resp[t].err = "OK" =>
      /\ op[t].type \in {"LookUpInode"} \cup CreateOps =>
           resp[t].attrExp > Now /\ resp[t].entryExp > Now
      /\ op[t].type \in {"GetInodeAttributes", "SetInodeAttributes"} =>
           resp[t].attrExp > Now

\* C17: the writing step of WriteFile changes the contents of the inode
\* its request names and nothing else: the request with its offset, which
\* is where the handle layer's cursor reaches the file system, stays as it
\* came; every other field of that inode, every other inode, the directory
\* entries, the table and the free list are as before; and the other steps
\* of the handler only lock and unlock.
C17_WriteFrame ==
  [][\A t \in Threads :
       op[t].type = "WriteFile" /\ pc'[t] # pc[t] /\ pc[t] # "idle" =>
         /\ freeInodes' = freeInodes
         /\ DOMAIN inodes' = DOMAIN inodes
         /\ pc[t] # "unlock" => op' = op
         /\ childID' = childID
         /\ IF pc[t] = "body"
            THEN LET id == op[t].inode
                 IN  /\ inodes' = [inodes EXCEPT ![id].contents =
                                      WriteAt(@, op[t].data, op[t].offset).contents]
                     /\ \A i \in DOMAIN inodes : i # id => inodes'[i] = inodes[i]
                     /\ inodes'[id].entries = inodes[id].entries
                     /\ inodes'[id].nlink = inodes[id].nlink
                     /\ inodes'[id].kind = inodes[id].kind
            ELSE Data(inodes') = Data(inodes)]_vars

\* "x" was written at offset 1 of the file that held "taco", the second
\* inode of the root directory's table.
C17_Witness ==
  \E t \in Threads :
    /\ hist # <<>>
    /\ pc[t] = "unlockInode"
    /\ op[t].type = "WriteFile" /\ op[t].data = <<120>> /\ op[t].offset = 1
    /\ hist[1].tbl[op[t].inode].contents = Taco
    /\ inodes[op[t].inode].contents = <<116, 120, 99, 111>>
    /\ Len(inodes[RootInodeID].entries) = 1

\* C18: on every table and free list, checkInvariants returns without a
\* panic if and only if the slots below the root are vacant, the root slot
\* holds a directory, and the free list is exactly the vacant slots above
\* the root.
C18_ExactOracle ==
  hist # <<>> =>
    (hist[1].ok <=>
       /\ \A i \in DOMAIN inodes : i < RootInodeID => inodes[i] = NilInode
       /\ Occupied(inodes, RootInodeID)
       /\ isDir(inodes[RootInodeID])
       /\ FreeListExact)

\* C19: no step of a handler vacates a slot or changes the free list (no
\* handler calls deallocateInode, and no forget notification is handled),
\* so no slot is vacated before its inode's link count is zero and the
\* forget has come; every entry of every directory of the table names an
\* occupied slot above the root that holds an inode of the entry's type;
\* and the child resolution of LookUpInode, RmDir and Unlink finds its
\* inode and does not panic.
C19_EntriesResolve ==
  /\ [][/\ \A i \in DOMAIN inodes : Occupied(inodes, i) => Occupied(inodes', i)
        /\ freeInodes' = freeInodes]_vars
  /\ [](\A p \in DOMAIN inodes : \A k \in 1 .. Len(inodes[p].entries) :
          LET e == inodes[p].entries[k]
          IN  /\ e.child > RootInodeID
              /\ Occupied(inodes, e.child)
              /\ inodes[e.child].kind = e.type)
  /\ [](\A t \in Threads : pc[t] = "getChild" => Occupied(inodes, childID[t]))
  /\ [][\A t \in Threads :
          pc[t] = "getChild" /\ pc'[t] # "getChild" =>
            ~panicked' /\ pc'[t] = "child" /\ inodes'[childID[t]].mu = t]_vars

\* LookUpInode has resolved the child of an entry, while an inode whose
\* link count is zero, and which no entry names, still has its slot.
C19_Witness ==
  \E t \in Threads :
    /\ op[t].type = "LookUpInode"
    /\ pc[t] = "child"
    /\ Linked(inodes, childID[t])
    /\ \E i \in DOMAIN inodes :
         /\ i > RootInodeID
         /\ i < childID[t]
         /\ Occupied(inodes, i)
         /\ inodes[i].nlink = 0
         /\ ~Linked(inodes, i)

\* The handler of thread t is at a step that the code answers with a
\* panic: its request names an ID without an inode, or it is OpenDir on an
\* inode that is no directory, or OpenFile on one that is no file.
Doomed(t) ==
  \/ pc[t] = "get" /\ ~Occupied(inodes, op[t].inode)
  \/ /\ pc[t] = "body"
     /\ \/ op[t].type = "OpenDir" /\ ~isDir(inodes[op[t].inode])
        \/ op[t].type = "OpenFile" /\ ~isFile(inodes[op[t].inode])

\* C20: a handler whose request names an ID without an inode, and OpenDir
\* on a non-directory and OpenFile on a non-file, panic: the step sets no
\* error and no other field of the response, and changes no inode, nor the
\* table, nor the free list; and what such a handler did before, taking
\* fs.mu and the lock of its inode, changed nothing but locks.
C20_FatalPath ==
  /\ [][\A t \in Threads :
          Doomed(t) /\ pc'[t] # pc[t] =>
            /\ panicked'
            /\ pc'[t] = "panic"
            /\ resp[t] = NoResp /\ resp'[t] = NoResp
            /\ Data(inodes') = Data(inodes)
            /\ freeInodes' = freeInodes]_vars
  /\ [][\A t \in Threads :
          pc'[t] # pc[t] /\ pc[t] \in {"idle", "get"} =>
            /\ Data(inodes') = Data(inodes)
            /\ freeInodes' = freeInodes
            /\ resp'[t] = NoResp]_vars
  /\ [](\A t \in Threads : pc[t] = "panic" => resp[t] = NoResp)

\* An Unlink whose parent is the reserved ID 0 has panicked, in a file
\* system whose directories name two inodes.
C20_Witness ==
  \E t \in Threads :
    /\ pc[t] = "panic"
    /\ panicked
    /\ op[t].type = "Unlink"
    /\ op[t].inode = 0
    /\ LenInodes(inodes) = 4
    /\ Linked(inodes, 2) /\ Linked(inodes, 3)

\* allocateInode, called by thread 1 on the table and the free list as
\* they are, returns an ID above the root whose slot is vacant or past the
\* table; stores there an inode of the attributes given, with its lock
\* held by the caller; leaves every other slot alone; and does not shorten
\* the table.
AllocateSafe ==
  \A kind \in Kinds :
    LET r == allocateInode(inodes, freeInodes, Attrs(kind, 1), 1)
        id == r[1]
    IN  /\ id > RootInodeID
        /\ ~Occupied(inodes, id)
        /\ InRange(inodes, id) \/ id = LenInodes(inodes)
        /\ Occupied(r[2], id)
        /\ r[2][id] = [newInode(Attrs(kind, 1)) EXCEPT !.mu = 1]
        /\ \A i \in DOMAIN inodes : i # id => r[2][i] = inodes[i]
        /\ LenInodes(r[2]) >= LenInodes(inodes)
        /\ DOMAIN inodes \subseteq DOMAIN r[2]

\* Every allocateInode call so far returned an ID above the root whose
\* slot was vacant or past the table.
AllocationsFresh ==
  \A k \in 1 .. Len(hist) :
    hist[k].call = "allocate" =>
      /\ hist[k].id > RootInodeID
      /\ ~hist[k].occupied
      /\ hist[k].id <= hist[k].len

\* C21 as stated: after any sequence of allocateInode and deallocateInode
\* calls, every allocateInode call returns an ID above the root whose slot
\* was vacant or did not exist, overwrites no resident inode and returns
\* the inode locked, and the table never gets shorter.
C21_AnyFreeList ==
  /\ [](AllocationsFresh /\ AllocateSafe)
  /\ [][LenInodes(inodes') >= LenInodes(inodes)]_vars

\* C21 amended: after any sequence of allocateInode and deallocateInode
\* calls in which every deallocateInode was given an ID above the root
\* whose slot was occupied, every allocateInode call returns an ID above
\* the root whose slot was vacant or did not exist, overwrites no resident
\* inode and returns the inode locked; and the table never gets shorter,
\* whatever the calls.
C21_AllocateFresh ==
  /\ [](ProperDeallocations => AllocationsFresh /\ AllocateSafe)
  /\ [][LenInodes(inodes') >= LenInodes(inodes)]_vars

\* The last call reused the vacant slot 2, below the occupied slot 3, and
\* left the free list empty; the next call will append.
C21_Witness ==
  /\ ProperDeallocations
  /\ Len(hist) >= 4
  /\ hist[Len(hist)] = [call |-> "allocate", id |-> 2, occupied |-> FALSE, len |-> 4]
  /\ hist[Len(hist) - 1].call = "deallocate"
  /\ Occupied(inodes, 2) /\ Occupied(inodes, 3)
  /\ freeInodes = <<>>

\* The number of directory entries of the table that name inode i.
EntryCount(tbl, i) ==
  Cardinality({pk \in UNION {{<<p, k>> : k \in 1 .. Len(tbl[p].entries)} : p \in DOMAIN tbl} :
                 tbl[pk[1]].entries[pk[2]].child = i})

\* C22: every inode above the root that is in the table, and is not one a
\* create handler has allocated and is about to link, has link count 0 or
\* 1 and is named by at most one directory entry, with link count 1
\* exactly when an entry names it; and the removing step of Unlink and
\* RmDir finds the child's link count at 1 and leaves it at 0, so that no
\* link count is decremented below zero.
C22_LinkCount ==
  /\ [](\A i \in DOMAIN inodes :
          i > RootInodeID /\ Occupied(inodes, i) /\ i \notin Fresh =>
            /\ inodes[i].nlink \in {0, 1}
            /\ EntryCount(inodes, i) <= 1
            /\ inodes[i].nlink = 1 <=> EntryCount(inodes, i) = 1)
  /\ [][\A t \in Threads :
          /\ op[t].type \in {"RmDir", "Unlink"}
          /\ pc[t] = "child"
          /\ pc'[t] # "child"
          /\ resp'[t].err = "OK"
          => /\ inodes[childID[t]].nlink = 1
             /\ inodes'[childID[t]].nlink = 0
             /\ EntryCount(inodes, childID[t]) = 1
             /\ EntryCount(inodes', childID[t]) = 0]_vars
  /\ [](\A i \in DOMAIN inodes : inodes[i].nlink >= 0)

\* RmDir has removed a directory, whose link count is now 0 and which no
\* entry names, while another inode keeps its entry and its link count of
\* 1.
C22_Witness ==
  \E t \in Threads :
    /\ op[t].type = "RmDir"
    /\ pc[t] = "unlockChild"
    /\ resp[t].err = "OK"
    /\ inodes[childID[t]].nlink = 0
    /\ EntryCount(inodes, childID[t]) = 0
    /\ \E j \in DOMAIN inodes :
         /\ j # childID[t]
         /\ j > RootInodeID
         /\ inodes[j].nlink = 1
         /\ EntryCount(inodes, j) = 1

====
